---- MODULE Spec2Model ----
(***************************************************************************)
(* Model of bio_sim.py: a SimPy simulation of Blobs foraging in a Forest.  *)
(*                                                                         *)
(* The SimPy kernel the program runs on is modelled by what the program    *)
(* uses of it: an event queue ordered by (time, priority, insertion id),   *)
(* processes that wait on one event at a time, interrupts delivered as     *)
(* urgent events, and a Container whose put/get complete through events.   *)
(* One action is one dispatch of the queue's first event together with the *)
(* whole run of the process it resumes, up to that process's next yield.   *)
(*                                                                         *)
(* Time is scaled: the program's day of 1440 minutes is 2 * HalfDay ticks, *)
(* and the population, the food amounts and the rest after a meal are      *)
(* scaled with it.                                                         *)
(***************************************************************************)
EXTENDS Integers, FiniteSets, Sequences, TLC

\* ------------------------------------------------------------ parameters
\* Scale of the model: half a day, in ticks (the program's 720 minutes).
HalfDay == 4
\* DAY = 1440: the length of a day.
DAY == 2 * HalfDay
\* DAYLIGHT = DAY/2.
DAYLIGHT == DAY \div 2
\* NIGHTTIME = DAY - DAYLIGHT.
NIGHTTIME_long == DAY - DAYLIGHT + 1

NIGHTTIME == DAY - DAYLIGHT
\* NUM_DAYS = 2.
NUM_DAYS == 2
\* NUM_BLOB = 100, scaled.
NUM_BLOB == 2
\* TIME_AFTER_EAT = 20, scaled.
TIME_AFTER_EAT == 1
\* INITIAL_FOOD = 70, scaled.
INITIAL_FOOD == 2
\* FODD_RATE_PRODUCTION = 70, scaled.
FODD_RATE_PRODUCTION == 1
\* self.food_requirements = 1.
food_requirements == 1

\* env.run(until=NUM_DAYS*1440)
HorizonLate == NUM_DAYS * DAY + 1

Horizon == NUM_DAYS * DAY

Blobs == 1..NUM_BLOB

\* time_to_food(): random.randint(1, int(DAYLIGHT)), both ends included.
time_to_food_zero == 0..DAYLIGHT

time_to_food == 1..DAYLIGHT

\* ------------------------------------------------------------- processes
ForestP == [type |-> "forest", b |-> 0]
GrowthP == [type |-> "growth", b |-> 0]
SleepP(b) == [type |-> "sleep", b |-> b]
HuntP(b) == [type |-> "hunt", b |-> b]
\* An event nobody waits on (its callback list holds no process).
NoProc == [type |-> "none", b |-> 0]

VARIABLES
    now,        \* env.now
    queue,      \* the environment's event heap: the events in heap order
    nextEid,    \* the environment's insertion counter
    level,      \* forest.food.level
    getq,       \* forest.food.get_queue: get requests not yet satisfied
    alive,      \* Blob.alive
    isHunting,  \* Blob.isHunting
    food_eaten, \* Blob.food_eaten
    forestpc,   \* where day_cycle is suspended
    growthpc,   \* where food_growth is suspended
    sleeppc,    \* where each Blob's sleep is suspended
    huntpc,     \* where each Blob's hunt is suspended
    target,     \* hunt process's _target: the id of the event it waits on
    stopped,    \* env.run has returned
    failed,     \* an exception left a process (the run is aborted)
    last,       \* the event dispatched by the last step, and the handler run
    level0,     \* the stock the forest was constructed with
    puts,       \* how many times food_growth has put new food
    meals       \* how much the Blobs have counted as eaten (food_eaten += 1)

vars == <<now, queue, nextEid, level, getq, alive, isHunting, food_eaten,
          forestpc, growthpc, sleeppc, huntpc, target, stopped, failed, last,
          level0, puts, meals>>

\* ------------------------------------------------------------ event queue
\* Priority of an event: Initialize, Interruption and the until-event of
\* env.run are scheduled URGENT, everything else NORMAL.
PrioRank(p) == IF p = "urgent" THEN 0 ELSE 1

Event(t, p, id, kind, cb) ==
    [time |-> t, prio |-> p, eid |-> id, kind |-> kind, cb |-> cb]

\* Heap order of the environment: (time, priority, insertion id).
BeforeLifo(e, f) ==
    \/ e.time < f.time
    \/ e.time = f.time /\ PrioRank(e.prio) < PrioRank(f.prio)
    \/ e.time = f.time /\ e.prio = f.prio /\ e.eid > f.eid

Before(e, f) ==
    \/ e.time < f.time
    \/ e.time = f.time /\ PrioRank(e.prio) < PrioRank(f.prio)
    \/ e.time = f.time /\ e.prio = f.prio /\ e.eid < f.eid

\* heappush: the queue is kept in heap order, so a new event goes behind
\* every event that is before it.
Insert(q, ev) ==
    LET k == Cardinality({i \in 1..Len(q) : Before(q[i], ev)})
    IN  SubSeq(q, 1, k) \o <<ev>> \o SubSeq(q, k + 1, Len(q))

RECURSIVE InsertAll(_, _)
InsertAll(q, evs) ==
    IF evs = << >> THEN q ELSE InsertAll(Insert(q, Head(evs)), Tail(evs))

\* The event env.step() pops next.
NextEvent == Head(queue)

Running == ~stopped /\ ~failed /\ queue # << >>

\* Priority of process.interrupt()'s Interruption event.
InterruptPrioNormal == "normal"

InterruptPrio == "urgent"

\* ------------------------------------------------------------- container
\* Container.put: the level after adding amount a.
PutLevelSub(l, a) == l - a

PutLevel(l, a) == l + a

\* new_food = FODD_RATE_PRODUCTION
new_food_more == FODD_RATE_PRODUCTION + 1

new_food == FODD_RATE_PRODUCTION

\* Container._trigger_get after a put: waiting gets are served in FIFO order
\* while the stock allows; the first that cannot be served blocks the rest.
RECURSIVE ServeGets(_, _)
ServeGets(q, l) ==
    IF q = << >> \/ l < 1 THEN [getq |-> q, level |-> l, served |-> << >>]
    ELSE LET r == ServeGets(Tail(q), l - 1)
         IN  [r EXCEPT !.served = <<Head(q)>> \o r.served]

\* ------------------------------------------------------------------ Blob
\* if self.food_eaten < self.food_requirements: self.alive = False
AliveAfterEvalNever(a, eaten) == a

AliveAfterEval(a, eaten) == IF eaten < food_requirements THEN FALSE ELSE a

\* self.food_eaten = 0
EatenAfterSleepKept(eaten) == eaten

EatenAfterSleep(eaten) == 0

\* self.food_eaten += 1
EatenAfterMealTwice(eaten) == eaten + 2

EatenAfterMeal(eaten) == eaten + 1

\* if forest.food.level > 0
HuntGuardGeq(l) == l >= 0

HuntGuard(l) == l > 0

\* The callback list of the event a process was waiting on loses that
\* process (Interruption._interrupt: target.callbacks.remove(_resume)).
RemoveCallbackKept(q, id) == q

RemoveCallback(q, id) ==
    [i \in 1..Len(q) |-> IF q[i].eid = id THEN [q[i] EXCEPT !.cb = NoProc] ELSE q[i]]

\* ------------------------------------------------------------------ Init
\* env = simpy.Environment(); forest = Forest(env); Blob_list = [...];
\* env.run(until=...) has scheduled its until-event. The Initialize events
\* are in construction order: day_cycle, then sleep and hunt of each Blob.
\* The forest starts with the configured stock, or empty.
Init ==
    /\ now = 0
    /\ queue = <<Event(0, "urgent", 0, "init", ForestP)>>
          \o [i \in 1..(2 * NUM_BLOB) |->
                IF i % 2 = 1
                THEN Event(0, "urgent", i, "init", SleepP((i + 1) \div 2))
                ELSE Event(0, "urgent", i, "init", HuntP(i \div 2))]
          \o <<Event(Horizon, "urgent", 2 * NUM_BLOB + 1, "stop", NoProc)>>
    /\ nextEid = 2 * NUM_BLOB + 2
    /\ level \in {0, INITIAL_FOOD}
    /\ getq = << >>
    /\ alive = [b \in Blobs |-> TRUE]
    /\ isHunting = [b \in Blobs |-> TRUE]
    /\ food_eaten = [b \in Blobs |-> 0]
    /\ forestpc = "init"
    /\ growthpc = "none"
    /\ sleeppc = [b \in Blobs |-> "init"]
    /\ huntpc = [b \in Blobs |-> "init"]
    /\ target = [b \in Blobs |-> 2 * b]
    /\ stopped = FALSE
    /\ failed = FALSE
    /\ last = [ev |-> Event(0, "urgent", 0 - 1, "none", NoProc), act |-> "Init"]
    /\ level0 = level
    /\ puts = 0
    /\ meals = 0

\* ---------------------------------------------------------------- Forest
\* day_cycle starts: yield env.timeout(DAYLIGHT)
ForestStart ==
    LET e == NextEvent IN
    /\ Running /\ e.kind = "init" /\ e.cb = ForestP
    /\ now' = e.time
    /\ queue' = Insert(Tail(queue),
                       Event(e.time + DAYLIGHT, "normal", nextEid, "timeout", ForestP))
    /\ nextEid' = nextEid + 1
    /\ forestpc' = "day"
    /\ last' = [ev |-> e, act |-> "ForestStart"]
    /\ UNCHANGED <<level0, puts, meals>>
    /\ UNCHANGED <<level, getq, alive, isHunting, food_eaten, growthpc,
                   sleeppc, huntpc, target, stopped, failed>>

\* The sun sets: yield env.process(self.food_growth(env))
ForestSunset ==
    LET e == NextEvent IN
    /\ Running /\ e.kind = "timeout" /\ e.cb = ForestP /\ forestpc = "day"
    /\ now' = e.time
    /\ queue' = Insert(Tail(queue),
                       Event(e.time, "urgent", nextEid, "init", GrowthP))
    /\ nextEid' = nextEid + 1
    /\ forestpc' = "growth"
    /\ growthpc' = "init"
    /\ last' = [ev |-> e, act |-> "ForestSunset"]
    /\ UNCHANGED <<level0, puts, meals>>
    /\ UNCHANGED <<level, getq, alive, isHunting, food_eaten,
                   sleeppc, huntpc, target, stopped, failed>>

\* food_growth starts: yield self.food.put(new_food). The container has no
\* capacity argument (it is unbounded), so the put is done at once and its
\* event is scheduled for the process to resume on.
GrowthStart ==
    LET e == NextEvent IN
    /\ Running /\ e.kind = "init" /\ e.cb = GrowthP
    /\ now' = e.time
    /\ level' = PutLevel(level, new_food)
    /\ queue' = Insert(Tail(queue),
                       Event(e.time, "normal", nextEid, "put", GrowthP))
    /\ nextEid' = nextEid + 1
    /\ growthpc' = "put"
    /\ last' = [ev |-> e, act |-> "GrowthStart"]
    /\ puts' = puts + 1
    /\ UNCHANGED <<level0, meals>>
    /\ UNCHANGED <<getq, alive, isHunting, food_eaten, forestpc,
                   sleeppc, huntpc, target, stopped, failed>>

\* The put event is dispatched: the container serves waiting gets, then
\* food_growth resumes and ends, which schedules its process event for
\* day_cycle, waiting on it.
GrowthDone ==
    LET e == NextEvent
        r == ServeGets(getq, level)
        k == Len(r.served)
    IN
    /\ Running /\ e.kind = "put" /\ e.cb = GrowthP
    /\ now' = e.time
    /\ level' = r.level
    /\ getq' = r.getq
    /\ queue' = InsertAll(Tail(queue),
          [i \in 1..k |->
             Event(e.time, "normal", nextEid + i - 1, "get", r.served[i].cb)]
          \o <<Event(e.time, "normal", nextEid + k, "proc", ForestP)>>)
    /\ target' = [b \in Blobs |->
                    IF \E i \in 1..k : r.served[i].cb = HuntP(b)
                    THEN nextEid - 1
                         + (CHOOSE i \in 1..k : r.served[i].cb = HuntP(b))
                    ELSE target[b]]
    /\ nextEid' = nextEid + k + 1
    /\ growthpc' = "done"
    /\ last' = [ev |-> e, act |-> "GrowthDone"]
    /\ UNCHANGED <<level0, puts, meals>>
    /\ UNCHANGED <<alive, isHunting, food_eaten, forestpc,
                   sleeppc, huntpc, stopped, failed>>

\* food_growth has ended: yield env.timeout(NIGHTTIME)
ForestNight ==
    LET e == NextEvent IN
    /\ Running /\ e.kind = "proc" /\ e.cb = ForestP /\ forestpc = "growth"
    /\ now' = e.time
    /\ queue' = Insert(Tail(queue),
                       Event(e.time + NIGHTTIME, "normal", nextEid, "timeout", ForestP))
    /\ nextEid' = nextEid + 1
    /\ forestpc' = "night"
    /\ last' = [ev |-> e, act |-> "ForestNight"]
    /\ UNCHANGED <<level0, puts, meals>>
    /\ UNCHANGED <<level, getq, alive, isHunting, food_eaten, growthpc,
                   sleeppc, huntpc, target, stopped, failed>>

\* The sun rises: back to the loop head, yield env.timeout(DAYLIGHT)
ForestSunrise ==
    LET e == NextEvent IN
    /\ Running /\ e.kind = "timeout" /\ e.cb = ForestP /\ forestpc = "night"
    /\ now' = e.time
    /\ queue' = Insert(Tail(queue),
                       Event(e.time + DAYLIGHT, "normal", nextEid, "timeout", ForestP))
    /\ nextEid' = nextEid + 1
    /\ forestpc' = "day"
    /\ last' = [ev |-> e, act |-> "ForestSunrise"]
    /\ UNCHANGED <<level0, puts, meals>>
    /\ UNCHANGED <<level, getq, alive, isHunting, food_eaten, growthpc,
                   sleeppc, huntpc, target, stopped, failed>>

\* ------------------------------------------------------------ Blob.sleep
\* The head of sleep's loop, with the Blob's flag a: while self.alive:
\* yield env.timeout(DAYLIGHT); the generator ends otherwise, and the
\* process event of an ended process is scheduled with nobody waiting.
SleepLoopEventAlways(b, a, t, id) ==
    Event(t + DAYLIGHT, "normal", id, "timeout", SleepP(b))

SleepLoopEvent(b, a, t, id) ==
    IF a THEN Event(t + DAYLIGHT, "normal", id, "timeout", SleepP(b))
    ELSE Event(t, "normal", id, "proc", NoProc)

\* sleep starts.
SleepStart(b) ==
    LET e == NextEvent IN
    /\ Running /\ e.kind = "init" /\ e.cb = SleepP(b)
    /\ now' = e.time
    /\ queue' = Insert(Tail(queue),
                       SleepLoopEvent(b, alive[b], e.time, nextEid))
    /\ nextEid' = nextEid + 1
    /\ sleeppc' = [sleeppc EXCEPT ![b] = IF alive[b] THEN "wait" ELSE "done"]
    /\ last' = [ev |-> e, act |-> "SleepStart"]
    /\ UNCHANGED <<level0, puts, meals>>
    /\ UNCHANGED <<level, getq, alive, isHunting, food_eaten, forestpc,
                   growthpc, huntpc, target, stopped, failed>>

\* sleep wakes from env.timeout(DAYLIGHT). Only if the Blob is flagged as
\* hunting: the hunt process is interrupted (an Interruption event is
\* scheduled; interrupting an ended process raises), survival is evaluated
\* and the day's count is reset. Then the loop head.
SleepWake(b) ==
    LET e == NextEvent
        h == isHunting[b]
        a == IF h THEN AliveAfterEval(alive[b], food_eaten[b]) ELSE alive[b]
        n == IF h THEN nextEid + 1 ELSE nextEid
    IN
    /\ Running /\ e.kind = "timeout" /\ e.cb = SleepP(b)
    /\ now' = e.time
    /\ last' = [ev |-> e, act |-> "SleepWake"]
    /\ UNCHANGED <<level0, puts, meals>>
    /\ IF h /\ huntpc[b] = "done"
       THEN /\ failed' = TRUE
            /\ queue' = Tail(queue)
            /\ UNCHANGED <<nextEid, alive, isHunting, food_eaten, sleeppc>>
       ELSE /\ queue' = InsertAll(Tail(queue),
                  (IF h THEN <<Event(e.time, InterruptPrio, nextEid,
                                     "interrupt", HuntP(b))>>
                   ELSE << >>)
                  \o <<SleepLoopEvent(b, a, e.time, n)>>)
            /\ nextEid' = n + 1
            /\ isHunting' = [isHunting EXCEPT ![b] = FALSE]
            /\ alive' = [alive EXCEPT ![b] = a]
            /\ food_eaten' = [food_eaten EXCEPT ![b] =
                                IF h THEN EatenAfterSleep(@) ELSE @]
            /\ sleeppc' = [sleeppc EXCEPT ![b] = IF a THEN "wait" ELSE "done"]
            /\ UNCHANGED failed
    /\ UNCHANGED <<level, getq, forestpc, growthpc, huntpc, target, stopped>>

\* ------------------------------------------------------------- Blob.hunt
\* The head of hunt's loop, reached with the queue q at time t:
\* while self.alive: self.isHunting = True;
\* yield env.timeout(time_to_food()); the generator ends otherwise.
HuntLoopHeadRevive(b, q, t) ==
    /\ alive' = [alive EXCEPT ![b] = TRUE]
    /\ \E d \in time_to_food :
          queue' = Insert(q, Event(t + d, "normal", nextEid, "timeout", HuntP(b)))
    /\ isHunting' = [isHunting EXCEPT ![b] = TRUE]
    /\ huntpc' = [huntpc EXCEPT ![b] = "forage"]
    /\ target' = [target EXCEPT ![b] = nextEid]
    /\ nextEid' = nextEid + 1

HuntLoopHeadNoFlag(b, q, t) ==
    /\ alive' = alive
    /\ IF alive[b]
       THEN /\ \E d \in time_to_food :
                  queue' = Insert(q, Event(t + d, "normal", nextEid,
                                           "timeout", HuntP(b)))
            /\ huntpc' = [huntpc EXCEPT ![b] = "forage"]
            /\ target' = [target EXCEPT ![b] = nextEid]
       ELSE /\ queue' = Insert(q, Event(t, "normal", nextEid, "proc", NoProc))
            /\ huntpc' = [huntpc EXCEPT ![b] = "done"]
            /\ target' = [target EXCEPT ![b] = 0]
    /\ isHunting' = isHunting
    /\ nextEid' = nextEid + 1

HuntLoopHeadForever(b, q, t) ==
    /\ alive' = alive
    /\ \E d \in time_to_food :
          queue' = Insert(q, Event(t + d, "normal", nextEid, "timeout", HuntP(b)))
    /\ isHunting' = [isHunting EXCEPT ![b] = TRUE]
    /\ huntpc' = [huntpc EXCEPT ![b] = "forage"]
    /\ target' = [target EXCEPT ![b] = nextEid]
    /\ nextEid' = nextEid + 1

HuntLoopHead(b, q, t) ==
    /\ alive' = alive
    /\ IF alive[b]
       THEN /\ \E d \in time_to_food :
                  queue' = Insert(q, Event(t + d, "normal", nextEid,
                                           "timeout", HuntP(b)))
            /\ isHunting' = [isHunting EXCEPT ![b] = TRUE]
            /\ huntpc' = [huntpc EXCEPT ![b] = "forage"]
            /\ target' = [target EXCEPT ![b] = nextEid]
       ELSE /\ queue' = Insert(q, Event(t, "normal", nextEid, "proc", NoProc))
            /\ isHunting' = isHunting
            /\ huntpc' = [huntpc EXCEPT ![b] = "done"]
            /\ target' = [target EXCEPT ![b] = 0]
    /\ nextEid' = nextEid + 1

\* hunt starts.
HuntStart(b) ==
    LET e == NextEvent IN
    /\ Running /\ e.kind = "init" /\ e.cb = HuntP(b)
    /\ now' = e.time
    /\ HuntLoopHead(b, Tail(queue), e.time)
    /\ last' = [ev |-> e, act |-> "HuntStart"]
    /\ UNCHANGED <<level0, puts, meals>>
    /\ UNCHANGED <<level, getq, food_eaten, forestpc, growthpc, sleeppc,
                   stopped, failed>>

\* The foraging timer expires. With food in the forest: yield
\* forest.food.get(1); the container takes the unit at once when it has it
\* and schedules the get event, and queues the request otherwise. With no
\* food: nothing, and back to the loop head.
HuntForaged(b) ==
    LET e == NextEvent IN
    /\ Running /\ e.kind = "timeout" /\ e.cb = HuntP(b) /\ huntpc[b] = "forage"
    /\ now' = e.time
    /\ last' = [ev |-> e, act |-> "HuntForaged"]
    /\ UNCHANGED <<level0, puts, meals>>
    /\ IF HuntGuard(level)
       THEN /\ IF level >= 1
               THEN /\ level' = level - 1
                    /\ queue' = Insert(Tail(queue),
                       Event(e.time, "normal", nextEid, "get", HuntP(b)))
                    /\ target' = [target EXCEPT ![b] = nextEid]
                    /\ nextEid' = nextEid + 1
                    /\ getq' = getq
               ELSE /\ getq' = Append(getq, [b |-> b, cb |-> HuntP(b)])
                    /\ queue' = Tail(queue)
                    /\ target' = [target EXCEPT ![b] = 0 - 1]
                    /\ UNCHANGED <<level, nextEid>>
            /\ huntpc' = [huntpc EXCEPT ![b] = "get"]
            /\ UNCHANGED <<alive, isHunting>>
       ELSE /\ HuntLoopHead(b, Tail(queue), e.time)
            /\ UNCHANGED <<level, getq>>
    /\ UNCHANGED <<food_eaten, forestpc, growthpc, sleeppc, stopped, failed>>

\* The get event is dispatched: self.food_eaten += 1;
\* yield env.timeout(TIME_AFTER_EAT)
HuntAte(b) ==
    LET e == NextEvent IN
    /\ Running /\ e.kind = "get" /\ e.cb = HuntP(b) /\ huntpc[b] = "get"
    /\ now' = e.time
    /\ food_eaten' = [food_eaten EXCEPT ![b] = EatenAfterMeal(@)]
    /\ queue' = Insert(Tail(queue),
                       Event(e.time + TIME_AFTER_EAT, "normal", nextEid, "timeout", HuntP(b)))
    /\ target' = [target EXCEPT ![b] = nextEid]
    /\ nextEid' = nextEid + 1
    /\ huntpc' = [huntpc EXCEPT ![b] = "rest"]
    /\ last' = [ev |-> e, act |-> "HuntAte"]
    /\ meals' = meals + (EatenAfterMeal(food_eaten[b]) - food_eaten[b])
    /\ UNCHANGED <<level0, puts>>
    /\ UNCHANGED <<level, getq, alive, isHunting, forestpc, growthpc,
                   sleeppc, stopped, failed>>

\* The rest after the meal is over: back to the loop head.
HuntRested(b) ==
    LET e == NextEvent IN
    /\ Running /\ e.kind = "timeout" /\ e.cb = HuntP(b) /\ huntpc[b] = "rest"
    /\ now' = e.time
    /\ HuntLoopHead(b, Tail(queue), e.time)
    /\ last' = [ev |-> e, act |-> "HuntRested"]
    /\ UNCHANGED <<level0, puts, meals>>
    /\ UNCHANGED <<level, getq, food_eaten, forestpc, growthpc, sleeppc,
                   stopped, failed>>

\* The Interruption event is dispatched. An ended process ignores it.
\* Otherwise the process leaves the callbacks of the event it waits on and
\* simpy.Interrupt is thrown into it: inside the try block it is caught
\* (self.isHunting = False; yield env.timeout(NIGHTTIME)), elsewhere it
\* leaves the process and aborts the run.
HuntInterrupted(b) ==
    LET e == NextEvent
        q == RemoveCallback(Tail(queue), target[b])
    IN
    /\ Running /\ e.kind = "interrupt" /\ e.cb = HuntP(b)
    /\ now' = e.time
    /\ last' = [ev |-> e, act |-> "HuntInterrupted"]
    /\ UNCHANGED <<level0, puts, meals>>
    /\ IF huntpc[b] = "done"
       THEN /\ queue' = Tail(queue)
            /\ UNCHANGED <<nextEid, getq, isHunting, huntpc, target, failed>>
       ELSE IF huntpc[b] \in {"forage", "get", "rest"}
       THEN /\ queue' = Insert(q, Event(e.time + NIGHTTIME, "normal", nextEid,
                                       "timeout", HuntP(b)))
            /\ getq' = [i \in 1..Len(getq) |->
                          IF getq[i].cb = HuntP(b)
                          THEN [getq[i] EXCEPT !.cb = NoProc] ELSE getq[i]]
            /\ nextEid' = nextEid + 1
            /\ isHunting' = [isHunting EXCEPT ![b] = FALSE]
            /\ huntpc' = [huntpc EXCEPT ![b] = "night"]
            /\ target' = [target EXCEPT ![b] = nextEid]
            /\ UNCHANGED failed
       ELSE /\ failed' = TRUE
            /\ queue' = Tail(queue)
            /\ UNCHANGED <<nextEid, getq, isHunting, huntpc, target>>
    /\ UNCHANGED <<level, alive, food_eaten, forestpc, growthpc, sleeppc,
                   stopped>>

\* The night's timer expires: back to the loop head.
HuntDawn(b) ==
    LET e == NextEvent IN
    /\ Running /\ e.kind = "timeout" /\ e.cb = HuntP(b) /\ huntpc[b] = "night"
    /\ now' = e.time
    /\ HuntLoopHead(b, Tail(queue), e.time)
    /\ last' = [ev |-> e, act |-> "HuntDawn"]
    /\ UNCHANGED <<level0, puts, meals>>
    /\ UNCHANGED <<level, getq, food_eaten, forestpc, growthpc, sleeppc,
                   stopped, failed>>

\* ------------------------------------------------------------ environment
\* An event with no process in its callbacks is dispatched: a timer whose
\* process was interrupted away from it, or the event of an ended process.
Discard ==
    LET e == NextEvent IN
    /\ Running /\ e.cb = NoProc /\ e.kind # "stop"
    /\ now' = e.time
    /\ queue' = Tail(queue)
    /\ last' = [ev |-> e, act |-> "Discard"]
    /\ UNCHANGED <<level0, puts, meals>>
    /\ UNCHANGED <<nextEid, level, getq, alive, isHunting, food_eaten, forestpc,
                   growthpc, sleeppc, huntpc, target, stopped, failed>>

\* The until-event of env.run(until=...) is dispatched: the run returns.
\* It is urgent, so it goes before every normal event due at the horizon.
Stop ==
    LET e == NextEvent IN
    /\ Running /\ e.kind = "stop"
    /\ now' = e.time
    /\ queue' = Tail(queue)
    /\ stopped' = TRUE
    /\ last' = [ev |-> e, act |-> "Stop"]
    /\ UNCHANGED <<level0, puts, meals>>
    /\ UNCHANGED <<nextEid, level, getq, alive, isHunting, food_eaten, forestpc,
                   growthpc, sleeppc, huntpc, target, failed>>

Next ==
    \/ ForestStart
    \/ ForestSunset
    \/ GrowthStart
    \/ GrowthDone
    \/ ForestNight
    \/ ForestSunrise
    \/ \E b \in Blobs : SleepStart(b)
    \/ \E b \in Blobs : SleepWake(b)
    \/ \E b \in Blobs : HuntStart(b)
    \/ \E b \in Blobs : HuntForaged(b)
    \/ \E b \in Blobs : HuntAte(b)
    \/ \E b \in Blobs : HuntRested(b)
    \/ \E b \in Blobs : HuntInterrupted(b)
    \/ \E b \in Blobs : HuntDawn(b)
    \/ Discard
    \/ Stop

Spec == Init /\ [][Next]_vars

\* env.run keeps stepping while the queue holds an event: a step that can
\* be taken is taken.
FairSpec == Spec /\ WF_vars(Next)

\* ---------------------------------------------------------------- helpers
\* The step about to be taken resumes Blob b's sleep from its timeout.
SleepWakes(b) ==
    Running /\ NextEvent.kind = "timeout" /\ NextEvent.cb = SleepP(b)

\* The step about to be taken is the expiry of Blob b's foraging timer.
ForageExpires(b) ==
    /\ Running /\ NextEvent.kind = "timeout" /\ NextEvent.cb = HuntP(b)
    /\ huntpc[b] = "forage"

\* A timer on which Blob b's hunt is still registered is due at time t.
HuntTimerDue(b, t) ==
    \E i \in 1..Len(queue) :
        /\ queue[i].kind = "timeout" /\ queue[i].cb = HuntP(b)
        /\ queue[i].time = t

\* The Blob the last step's event belonged to.
LastBlob == last.ev.cb.b

\* The due time of the event Blob b's hunt waits on (-1: not in the queue).
TargetTime(b) ==
    LET S == {i \in 1..Len(queue) : queue[i].eid = target[b]}
    IN  IF S = {} THEN 0 - 1 ELSE queue[CHOOSE i \in S : TRUE].time

\* sleep has called interrupt() on Blob b's hunt and the Interruption has
\* not been dispatched yet, or hunt is in its except block for the night.
Interrupted(b) ==
    \/ huntpc[b] = "night"
    \/ \E i \in 1..Len(queue) :
          queue[i].kind = "interrupt" /\ queue[i].cb = HuntP(b)

\* The sunset of the day that time t lies in.
Boundary(t) == (t \div DAY) * DAY + DAYLIGHT

\* The insertion id of the first foraging timer of Blob b: the processes
\* start in construction order at time 0, each scheduling one timer.
FirstTimer(b) == 2 * NUM_BLOB + 2 + 2 * b

\* The due time of day_cycle's pending timer.
ForestDue ==
    LET S == {i \in 1..Len(queue) :
                queue[i].kind = "timeout" /\ queue[i].cb = ForestP}
    IN  IF S = {} THEN 0 - 1 ELSE queue[CHOOSE i \in S : TRUE].time

\* How many times day_cycle has passed from day to night.
NightsBegun ==
    IF forestpc = "init" THEN 0
    ELSE IF forestpc = "growth" THEN now \div DAY + 1
    ELSE ForestDue \div DAY

\* --------------------------------------------------------------------- C1
\* C1: in every reachable state the Food Container's level is at least 0
\* and at most its capacity. The container is constructed without a
\* capacity (line 39), so the capacity is unbounded and the upper bound
\* holds of every number; what the program has to keep is level >= 0, also
\* when several hunt timers expire at the same instant.
C1_LevelInRange == level \in Nat

\* Two foraging timers were due at the same instant, the first hunt has
\* just taken the last unit, and the second is still to be dispatched.
C1_Witness ==
    /\ last.act = "HuntForaged" /\ huntpc[LastBlob] = "get" /\ level = 0
    /\ \E b \in Blobs : b # LastBlob /\ huntpc[b] = "forage" /\ HuntTimerDue(b, now)

\* --------------------------------------------------------------------- C2
\* C2: alive is monotone: no step sets a Blob's alive flag back to true.
C2_AliveMonotone == [][\A b \in Blobs : ~alive[b] => ~alive'[b]]_vars

\* A dead Blob's hunt process has come back to its loop head at dawn.
C2_Witness ==
    /\ last.act = "HuntDawn" /\ ~alive[LastBlob] /\ huntpc[LastBlob] = "done"

\* --------------------------------------------------------------------- C3
\* C3 as stated: at every wake of a living Blob's sleep process survival is
\* evaluated, so a Blob with food_eaten < food_requirements at the wake is
\* dead afterwards, whether or not it was flagged as hunting.
C3_EvaluatedAtEveryWake ==
    [][\A b \in Blobs :
         (SleepWakes(b) /\ alive[b] /\ food_eaten[b] < food_requirements)
            => ~alive'[b]]_vars

\* C3 as amended: survival is evaluated at the wakes that find the Blob
\* flagged as hunting: there a Blob with food_eaten < food_requirements is
\* dead afterwards. A wake that finds isHunting false (the wake at dawn)
\* evaluates nothing: alive and food_eaten are as they were.
C3_EvaluatedWhenHunting ==
    [][\A b \in Blobs : SleepWakes(b) =>
         /\ (isHunting[b] /\ food_eaten[b] < food_requirements) => ~alive'[b]
         /\ ~isHunting[b] =>
               alive'[b] = alive[b] /\ food_eaten'[b] = food_eaten[b]]_vars

\* One Blob died at the first sunset, another has eaten, survived it and
\* has now passed the wake at dawn with nothing eaten yet today.
C3_Witness ==
    /\ last.act = "SleepWake" /\ last.ev.time = DAY
    /\ alive[LastBlob] /\ food_eaten[LastBlob] = 0
    /\ \E b \in Blobs : ~alive[b]

\* --------------------------------------------------------------------- C4
\* C4: food_eaten is reset to 0 exactly once per day, at the day-to-night
\* boundary. The wake of sleep at a sunset (DAYLIGHT into a day) finds the
\* Blob hunting and so evaluates; right after an evaluation food_eaten is
\* 0; sleep is then not due again at that instant; and no other step ever
\* lowers food_eaten.
C4_ResetAtSunset ==
    [][\A b \in Blobs :
         /\ (SleepWakes(b) /\ NextEvent.time % DAY = DAYLIGHT) => isHunting[b]
         /\ (SleepWakes(b) /\ isHunting[b]) =>
               /\ food_eaten'[b] = 0
               /\ \A i \in 1..Len(queue') :
                     queue'[i].cb = SleepP(b) => queue'[i].time > now'
         /\ food_eaten'[b] < food_eaten[b] =>
               /\ SleepWakes(b) /\ isHunting[b]
               /\ NextEvent.time % DAY = DAYLIGHT]_vars

\* A Blob that had eaten has been evaluated at the first sunset: it lives
\* and its count is back to 0.
C4_Witness ==
    /\ last.act = "SleepWake" /\ last.ev.time = DAYLIGHT
    /\ alive[LastBlob] /\ food_eaten[LastBlob] = 0 /\ meals > 0

\* --------------------------------------------------------------------- C5
\* C5 as stated, at the end of the run: a living Blob whose hunt was
\* interrupted at T has re-entered HUNTING once the clock has reached
\* T + NIGHTTIME.
C5_ReentersAfterEveryNight ==
    \A b \in Blobs :
        (stopped /\ alive[b] /\ huntpc[b] = "night") => now < TargetTime(b)

\* C5 as amended: a hunt interrupted at T waits on a timer due at exactly
\* T + NIGHTTIME; from the interrupt() call until that timer is dispatched
\* nothing else resumes it (the timer it was suspended on has lost it), it
\* performs no get and food_eaten is not incremented; when the night timer
\* is dispatched a living Blob is hunting again with a new foraging timer.
\* The night timer due at the horizon of the run is never dispatched: the
\* Blob re-enters HUNTING only if T + NIGHTTIME is before the horizon.
C5_InterruptedUntilDawn ==
    /\ [](\A b \in Blobs : huntpc[b] = "night" =>
             /\ HuntTimerDue(b, TargetTime(b))
             /\ now <= TargetTime(b)
             /\ stopped => TargetTime(b) >= Horizon)
    /\ [][\A b \in Blobs :
            /\ (/\ Running /\ NextEvent.kind = "interrupt"
                /\ NextEvent.cb = HuntP(b)
                /\ huntpc[b] \in {"forage", "get", "rest"})
               => /\ huntpc'[b] = "night" /\ ~isHunting'[b]
                  /\ TargetTime(b)' = NextEvent.time + NIGHTTIME
            /\ Interrupted(b) =>
                  /\ food_eaten'[b] <= food_eaten[b]
                  /\ huntpc'[b] # "get"
                  /\ (Running /\ NextEvent.cb = HuntP(b)) =>
                        \/ NextEvent.kind = "interrupt"
                        \/ huntpc[b] = "night" /\ NextEvent.eid = target[b]
            /\ (huntpc[b] = "night" /\ huntpc'[b] # "night") =>
                  /\ now' = TargetTime(b)
                  /\ now' < Horizon
                  /\ alive[b] =>
                        /\ isHunting'[b] /\ huntpc'[b] = "forage"
                        /\ TargetTime(b)' > now']_vars

\* A living Blob is hunting again at the first dawn, one NIGHTTIME after
\* its interrupt at the first sunset, with food left in the forest that it
\* did not touch during the night.
C5_Witness ==
    /\ last.act = "HuntDawn" /\ now = DAYLIGHT + NIGHTTIME
    /\ alive[LastBlob] /\ isHunting[LastBlob] /\ huntpc[LastBlob] = "forage"
    /\ food_eaten[LastBlob] = 0 /\ level > 0

\* --------------------------------------------------------------------- C6
\* C6: when a foraging timer expires with the level at 0, the step leaves
\* the level, every food_eaten and every alive flag as they are, queues no
\* request on the container, and the hunt is at once suspended on a new
\* foraging timer, due 1..DAYLIGHT after this instant.
C6_EmptyForestSkips ==
    [][\A b \in Blobs : (ForageExpires(b) /\ level = 0) =>
         /\ level' = level /\ food_eaten' = food_eaten /\ alive' = alive
         /\ getq' = getq
         /\ now' = NextEvent.time
         /\ huntpc'[b] = "forage" /\ isHunting'[b]
         /\ target'[b] = nextEid
         /\ HuntTimerDue(b, TargetTime(b))'
         /\ TargetTime(b)' - now' \in time_to_food]_vars

\* A foraging timer has just expired on an empty forest.
C6_Witness ==
    /\ last.act = "HuntForaged" /\ level = 0
    /\ huntpc[LastBlob] = "forage" /\ food_eaten[LastBlob] = 0
    /\ TargetTime(LastBlob) > now

\* --------------------------------------------------------------------- C7
\* C7: food_growth puts exactly once per passage from day to night, the
\* level rises only by that put and then by exactly FODD_RATE_PRODUCTION
\* (the container has no capacity to clip at), at DAYLIGHT into the day;
\* with an initial stock of 0 the level in the first night is exactly
\* FODD_RATE_PRODUCTION.
C7_OnePutPerNight ==
    /\ [](/\ puts = IF forestpc = "growth" /\ growthpc = "init"
                    THEN NightsBegun - 1 ELSE NightsBegun
          /\ (level0 = 0 /\ puts = 1 /\ now < DAY) =>
                level = FODD_RATE_PRODUCTION)
    /\ [][/\ level' > level =>
                /\ Running /\ NextEvent.kind = "init" /\ NextEvent.cb = GrowthP
                /\ NextEvent.time % DAY = DAYLIGHT
                /\ puts' = puts + 1
          /\ puts' # puts =>
                puts' = puts + 1 /\ level' = level + FODD_RATE_PRODUCTION]_vars

\* The forest started empty and the first night's growth has been put.
C7_Witness ==
    /\ last.act = "GrowthStart" /\ level0 = 0 /\ puts = 1 /\ meals = 0
    /\ level = FODD_RATE_PRODUCTION /\ now = DAYLIGHT

\* --------------------------------------------------------------------- C8
\* C8: a Blob is alive after the evaluation at a sunset exactly if it was
\* alive before and had food_eaten >= food_requirements; a hunt whose
\* foraging timer is due at or after the coming sunset performs no get and
\* counts no meal; and a Blob whose first sampled duration reaches the
\* first sunset (the sampler returns nothing longer than DAYLIGHT) has
\* eaten nothing and is dead right after it.
C8_SurvivalAtSunset ==
    [][\A b \in Blobs :
         /\ (SleepWakes(b) /\ isHunting[b]) =>
               (alive'[b] <=> (alive[b] /\ food_eaten[b] >= food_requirements))
         /\ (huntpc[b] = "forage" /\ TargetTime(b) >= Boundary(now)) =>
               huntpc'[b] # "get" /\ food_eaten'[b] <= food_eaten[b]
         /\ (/\ SleepWakes(b) /\ NextEvent.time = DAYLIGHT
             /\ huntpc[b] = "forage" /\ target[b] = FirstTimer(b))
            => food_eaten[b] = 0 /\ ~alive'[b]]_vars

\* The forest had food all day, the Blob's first timer is only due at the
\* first sunset, and the evaluation there has found it starved.
C8_Witness ==
    /\ last.act = "SleepWake" /\ last.ev.time = DAYLIGHT
    /\ ~alive[LastBlob] /\ level0 > 0
    /\ huntpc[LastBlob] = "forage" /\ target[LastBlob] = FirstTimer(LastBlob)
    /\ TargetTime(LastBlob) = DAYLIGHT

\* --------------------------------------------------------------------- C9
\* C9 as stated: events with equal due time are dispatched in insertion
\* order, whatever their kind: no event still queued for the time of the
\* event just dispatched was scheduled before it.
C9_InsertionOrder ==
    \A i \in 1..Len(queue) :
        queue[i].time = last.ev.time => queue[i].eid > last.ev.eid

\* C9 as amended: events are dispatched in order of due time; among events
\* with equal due time, the urgent ones (process starts, interrupts, the
\* until-event of the run) go before the normal ones (timers, put and get
\* completions, process ends), also before normal ones scheduled earlier;
\* events with equal due time and equal priority go in insertion order.
C9_PriorityThenInsertion ==
    \A i \in 1..Len(queue) :
        /\ queue[i].time >= last.ev.time
        /\ (queue[i].time = last.ev.time /\ queue[i].eid < last.ev.eid) =>
              last.ev.prio = "urgent" /\ queue[i].prio = "normal"

\* An interrupt has been dispatched ahead of a timer that was scheduled
\* before it and is due at the same time.
C9_Witness ==
    /\ last.act = "HuntInterrupted"
    /\ \E i \in 1..Len(queue) :
          /\ queue[i].time = last.ev.time /\ queue[i].eid < last.ev.eid
          /\ queue[i].kind = "timeout" /\ queue[i].prio = "normal"

\* -------------------------------------------------------------------- C11
\* A step schedules nothing into the past, and the timer a hunt starts
\* waiting on when it begins a foraging attempt is due at least one time
\* unit after the instant of the step.
TimeAdvances ==
    /\ now' >= now
    /\ \A i \in 1..Len(queue') : queue'[i].time >= now'
    /\ \A b \in Blobs :
          (huntpc'[b] = "forage" /\ target'[b] # target[b]) =>
              TargetTime(b)' >= now' + 1

\* C11: the run always terminates. Logical time cannot stall at one
\* instant: every foraging attempt, also one that finds the container
\* empty and loops at once, waits on a timer due at least 1 later, so the
\* run reaches its horizon after finitely many dispatches and stops there.
C11_RunTerminates ==
    /\ [][TimeAdvances]_vars
    /\ <>(stopped /\ now = Horizon)

\* A run that started with an empty container, in which every expired
\* foraging timer found nothing and looped, has reached its horizon.
C11_Witness ==
    /\ stopped /\ now = Horizon
    /\ level0 = 0 /\ meals = 0
    /\ nextEid > 6 * NUM_BLOB + 6

\* -------------------------------------------------------------------- C12
\* A change of day_cycle's position is one of: the start of day 0 at time 0;
\* the sunset of day k at k*DAY + DAYLIGHT; the return from food_growth at
\* the very instant of that sunset, with the night timer due NIGHTTIME
\* later; the start of day k at k*DAY. puts counts the sunsets whose growth
\* has been put, which is the number of the day about to start.
ForestPhaseStep ==
    forestpc' # forestpc =>
        \/ /\ forestpc = "init" /\ forestpc' = "day"
           /\ now' = 0
           /\ ForestDue' = DAYLIGHT
        \/ /\ forestpc = "day" /\ forestpc' = "growth"
           /\ now' = puts * DAY + DAYLIGHT
        \/ /\ forestpc = "growth" /\ forestpc' = "night"
           /\ now' = now
           /\ now' = (puts - 1) * DAY + DAYLIGHT
           /\ ForestDue' = puts * DAY
        \/ /\ forestpc = "night" /\ forestpc' = "day"
           /\ now' = puts * DAY
           /\ ForestDue' = puts * DAY + DAYLIGHT

\* C12: the Forest alternates strictly between day and night with no phase
\* skipped: day k starts at exactly k * (DAYLIGHT + NIGHTTIME), its night
\* starts exactly DAYLIGHT later, and food_growth takes no logical time.
C12_PhasesAlternate ==
    /\ [](forestpc = "day" =>
             /\ ForestDue = puts * DAY + DAYLIGHT
             /\ puts * DAY <= now /\ now <= ForestDue)
    /\ [](forestpc = "growth" => now = Boundary(now))
    /\ [](forestpc = "night" =>
             /\ ForestDue = puts * DAY
             /\ ForestDue - NIGHTTIME <= now /\ now <= ForestDue)
    /\ [][ForestPhaseStep]_vars

\* Day 1 has just started, after one full day and one full night.
C12_Witness ==
    /\ last.act = "ForestSunrise"
    /\ forestpc = "day" /\ now = DAY /\ puts = 1

\* -------------------------------------------------------------------- C13
\* C13 as stated: running to the horizon dispatches every pending event due
\* at or before the horizon, those due at exactly the horizon included: when
\* the run has stopped, nothing due at the horizon or earlier is still
\* queued.
C13_DueAtHorizonDispatched ==
    stopped => \A i \in 1..Len(queue) : queue[i].time > NUM_DAYS * DAY

\* C13 as amended: running to the horizon NUM_DAYS * DAY dispatches every
\* pending event due before the horizon and none due at the horizon or
\* later: the run stops at the horizon ahead of the events due at that very
\* instant, which stay queued, and the processes waiting on them keep the
\* state they had.
C13_DueBeforeHorizonDispatched ==
    /\ last.act \notin {"Init", "Stop"} => last.ev.time < NUM_DAYS * DAY
    /\ now <= NUM_DAYS * DAY
    /\ stopped =>
          /\ last.act = "Stop" /\ now = NUM_DAYS * DAY
          /\ \A i \in 1..Len(queue) : queue[i].time >= NUM_DAYS * DAY
          /\ ForestDue = NUM_DAYS * DAY /\ forestpc = "night"
          /\ \A b \in Blobs :
                /\ alive[b] => sleeppc[b] = "wait" /\ huntpc[b] = "night"
                /\ huntpc[b] = "night" => TargetTime(b) = NUM_DAYS * DAY

\* The run has stopped with a living Blob in its night wait: its sleep
\* timer, its hunt's night timer and the Forest's night timer are all due at
\* the horizon and still queued.
C13_Witness ==
    /\ stopped
    /\ \E b \in Blobs :
          /\ alive[b] /\ huntpc[b] = "night"
          /\ HuntTimerDue(b, NUM_DAYS * DAY)
          /\ \E i \in 1..Len(queue) :
                queue[i].cb = SleepP(b) /\ queue[i].time = NUM_DAYS * DAY

\* -------------------------------------------------------------------- C14
\* An Interruption of Blob b's hunt is in the queue.
InterruptPending(b) ==
    \E i \in 1..Len(queue) :
        queue[i].kind = "interrupt" /\ queue[i].cb = HuntP(b)

\* What a step does about interrupts. A sleep wake-up happens at a sunset
\* or at a day start; at a sunset the Blob is flagged hunting and the wake
\* calls interrupt() on its hunt, at a day start it is not and the wake
\* calls nothing. An Interruption is pending only after such a call, is
\* dispatched at the instant of the call, and sends the hunt into its night
\* wait; no second one follows before the next sunset.
InterruptStep ==
    \A b \in Blobs :
        /\ SleepWakes(b) =>
              /\ alive[b]
              /\ NextEvent.time \in {Boundary(NextEvent.time),
                                     Boundary(NextEvent.time) - DAYLIGHT}
              /\ isHunting[b] <=> NextEvent.time = Boundary(NextEvent.time)
              /\ InterruptPending(b)' <=> isHunting[b]
        /\ (InterruptPending(b)' /\ ~InterruptPending(b)) =>
              SleepWakes(b) /\ now' = Boundary(now')
        /\ (InterruptPending(b) /\ ~InterruptPending(b)') =>
              /\ now' = now /\ now' = Boundary(now')
              /\ huntpc[b] \in {"forage", "rest"} /\ huntpc'[b] = "night"
              /\ TargetTime(b)' = now' + NIGHTTIME
        /\ (huntpc'[b] = "night" /\ huntpc[b] # "night") =>
              InterruptPending(b) /\ ~InterruptPending(b)'

\* C14: each living Blob's hunt is interrupted exactly once per night, at
\* the instant of the sunset (k * DAY + DAYLIGHT), and at no other instant:
\* the wake-ups of sleep at the day starts find isHunting false and deliver
\* nothing, and at every sunset isHunting is true for every living Blob.
C14_OneInterruptPerNight ==
    /\ [](\A b \in Blobs :
            /\ Cardinality({i \in 1..Len(queue) :
                              queue[i].kind = "interrupt"
                              /\ queue[i].cb = HuntP(b)}) <= 1
            /\ (alive[b] /\ sleeppc[b] = "wait") =>
                  \E i \in 1..Len(queue) :
                      /\ queue[i].kind = "timeout" /\ queue[i].cb = SleepP(b)
                      /\ queue[i].time \in {Boundary(queue[i].time),
                                            Boundary(queue[i].time) - DAYLIGHT}
                      /\ now <= queue[i].time
                      /\ queue[i].time <= now + DAYLIGHT)
    /\ [][InterruptStep]_vars

\* A Blob that survived day 0 has its hunt interrupted at the second sunset.
C14_Witness ==
    /\ last.act = "HuntInterrupted"
    /\ now = DAY + DAYLIGHT
    /\ alive[LastBlob] /\ huntpc[LastBlob] = "night"

\* -------------------------------------------------------------------- C15
\* The step about to be taken is the completion of Blob b's get(1).
GetCompletes(b) ==
    /\ Running /\ NextEvent.kind = "get" /\ NextEvent.cb = HuntP(b)
    /\ huntpc[b] = "get"

\* A meal, step by step. The expiry of a foraging timer with food in the
\* container takes one unit and leaves only the completion of the get
\* pending, due now; the completion counts the meal at that instant and
\* starts the rest; the rest ends either by an interrupt or by its timer,
\* TIME_AFTER_EAT after the meal, with a new foraging attempt.
MealStep ==
    \A b \in Blobs :
        /\ (ForageExpires(b) /\ level > 0) =>
              /\ level' = level - 1
              /\ huntpc'[b] = "get"
              /\ TargetTime(b)' = now'
        /\ GetCompletes(b) =>
              /\ now' = now
              /\ food_eaten'[b] = food_eaten[b] + 1
              /\ level' = level
              /\ huntpc'[b] = "rest"
              /\ TargetTime(b)' = now' + TIME_AFTER_EAT
        /\ huntpc[b] = "get" => GetCompletes(b) \/ huntpc'[b] = "get"
        /\ food_eaten'[b] > food_eaten[b] => GetCompletes(b)
        /\ (huntpc[b] = "rest" /\ huntpc'[b] # "rest") =>
              \/ InterruptPending(b) /\ huntpc'[b] = "night"
              \/ /\ ~InterruptPending(b)
                 /\ now' = TargetTime(b)
                 /\ huntpc'[b] = "forage" /\ isHunting'[b]
                 /\ TargetTime(b)' > now'

\* C15: when a foraging timer expires while level > 0, level goes down by
\* exactly 1 and the Blob's food_eaten goes up by exactly 1 at the same
\* logical instant, and unless a night interrupt arrives first the next
\* foraging attempt begins exactly TIME_AFTER_EAT after the meal.
C15_MealTakesOneUnit ==
    /\ [](\A b \in Blobs :
            /\ huntpc[b] = "get" => TargetTime(b) = now /\ ~InterruptPending(b)
            /\ (huntpc[b] = "rest" /\ ~InterruptPending(b)) =>
                  /\ TargetTime(b) >= now
                  /\ TargetTime(b) <= now + TIME_AFTER_EAT
                  /\ food_eaten[b] >= 1)
    /\ [][MealStep]_vars

\* A Blob has counted its second meal of the day: the first meal's rest
\* ended by its timer, and the next attempt found food again.
C15_Witness ==
    /\ last.act = "HuntAte"
    /\ food_eaten[LastBlob] = 2
    /\ huntpc[LastBlob] = "rest"
    /\ TargetTime(LastBlob) = now + TIME_AFTER_EAT

\* -------------------------------------------------------------------- C16
\* C16: no hunt ever blocks on the container. The level check and the
\* get(1) happen in one step, so every get(1) is satisfied at the instant it
\* is issued and the container's list of waiting gets is empty in every
\* reachable state, also when several foraging timers expire at the same
\* instant with fewer items than Blobs.
C16_NoBlockedGet ==
    /\ getq = << >>
    /\ ~failed
    /\ \A b \in Blobs :
          huntpc[b] = "get" =>
              /\ target[b] >= 0
              /\ \E i \in 1..Len(queue) :
                    /\ queue[i].eid = target[b]
                    /\ queue[i].kind = "get" /\ queue[i].time = now

\* Two foraging timers expired at one instant with a single unit left: the
\* first hunt took it, its get still completing, and the second found the
\* container empty and went on without a get.
C16_Witness ==
    /\ last.act = "HuntForaged"
    /\ huntpc[LastBlob] = "forage"
    /\ level = 0 /\ getq = << >>
    /\ \E b \in Blobs : b # LastBlob /\ huntpc[b] = "get"

\* -------------------------------------------------------------------- C17
\* C17 as stated: once alive is false the hunt process terminates at its
\* next loop head, at most NIGHTTIME after the death, and sleep at the
\* death itself: a run that has ended, NIGHTTIME or more after every death
\* in it, holds no dead Blob with a process still pending.
C17_DeadProcessesTerminated ==
    stopped =>
        \A b \in Blobs :
            ~alive[b] => sleeppc[b] = "done" /\ huntpc[b] = "done"

\* What a step does to the processes of a dead Blob: alive becomes false in
\* a wake-up of sleep, which terminates in that step; the hunt of a dead
\* Blob leaves its night wait only to terminate, when its night timer
\* expires; a terminated process stays terminated and no event resumes it.
DeadStep ==
    \A b \in Blobs :
        /\ (alive[b] /\ ~alive'[b]) =>
              /\ SleepWakes(b)
              /\ sleeppc'[b] = "done"
              /\ InterruptPending(b)' /\ huntpc'[b] # "done"
        /\ sleeppc[b] = "done" =>
              /\ sleeppc'[b] = "done"
              /\ ~(Running /\ NextEvent.cb = SleepP(b))
        /\ huntpc[b] = "done" =>
              /\ huntpc'[b] = "done"
              /\ ~(Running /\ NextEvent.cb = HuntP(b))
        /\ (~alive[b] /\ huntpc[b] = "night" /\ huntpc'[b] # "night") =>
              /\ huntpc'[b] = "done"
              /\ now' = TargetTime(b)

\* C17 as amended: once alive is false, sleep has terminated, at the instant
\* of the death. The hunt, interrupted at that instant, waits out the night
\* and terminates at its next loop head, NIGHTTIME after the death, if that
\* instant lies before the horizon of the run; the hunt of a Blob that died
\* at the last sunset is still suspended when the run ends. A terminated
\* process is never resumed.
C17_DeadProcessesTerminate ==
    /\ [](\A b \in Blobs :
            ~alive[b] =>
                /\ sleeppc[b] = "done"
                /\ huntpc[b] # "done" => Interrupted(b)
                /\ (huntpc[b] # "done" /\ InterruptPending(b)) =>
                      now = Boundary(now)
                /\ huntpc[b] = "night" =>
                      /\ TargetTime(b) = Boundary(TargetTime(b)) - DAYLIGHT
                      /\ TargetTime(b) - NIGHTTIME <= now
                      /\ now <= TargetTime(b)
                /\ (stopped /\ huntpc[b] # "done") =>
                      huntpc[b] = "night" /\ TargetTime(b) = Horizon)
    /\ [][DeadStep]_vars

\* The run has ended with one Blob that died at the first sunset, both its
\* processes terminated, and one that died at the last sunset, its hunt
\* still in its night wait.
C17_Witness ==
    /\ stopped
    /\ \E b \in Blobs :
          ~alive[b] /\ sleeppc[b] = "done" /\ huntpc[b] = "done"
    /\ \E b \in Blobs :
          ~alive[b] /\ sleeppc[b] = "done" /\ huntpc[b] = "night"

\* -------------------------------------------------------------------- C18
\* Blob b's hunt is suspended on a timer that is still in the queue.
OnTimer(b) ==
    /\ huntpc[b] \in {"forage", "rest"}
    /\ \E i \in 1..Len(queue) :
          /\ queue[i].eid = target[b]
          /\ queue[i].kind = "timeout" /\ queue[i].cb = HuntP(b)

\* C18: every interrupt hits a hunt process that is suspended on a timer at
\* that moment, never one that has terminated, is executing, or waits for a
\* get to complete; and when the wake-up of sleep and a timer of the same
\* Blob's hunt are due at the same instant, the wake-up is dispatched
\* first.
C18_InterruptHitsTimer ==
    /\ [](~failed)
    /\ [](\A b \in Blobs :
            /\ InterruptPending(b) => OnTimer(b)
            /\ LET S == {i \in 1..Len(queue) :
                           queue[i].kind = "timeout"
                           /\ queue[i].cb = SleepP(b)}
                   H == {j \in 1..Len(queue) :
                           queue[j].kind = "timeout"
                           /\ queue[j].cb = HuntP(b)}
               IN  \A i \in S, j \in H :
                       queue[i].time = queue[j].time => i < j)
    /\ [][\A b \in Blobs :
            /\ (SleepWakes(b) /\ isHunting[b]) => OnTimer(b)
            /\ (InterruptPending(b) /\ ~InterruptPending(b)') =>
                  /\ OnTimer(b)
                  /\ NextEvent.kind = "interrupt" /\ NextEvent.cb = HuntP(b)
                  /\ ~OnTimer(b)' /\ huntpc'[b] = "night"]_vars

\* The wake-up of sleep at a sunset has gone ahead of the same Blob's rest
\* timer, due at that very instant, and has interrupted the hunt.
C18_Witness ==
    /\ last.act = "SleepWake"
    /\ now = Boundary(now)
    /\ InterruptPending(LastBlob)
    /\ huntpc[LastBlob] = "rest"
    /\ TargetTime(LastBlob) = now

\* -------------------------------------------------------------------- C19
\* The Blobs whose hunt has taken a unit and not yet counted it.
Eating == {b \in Blobs : huntpc[b] = "get"}

\* C19 as stated: in every reachable state between event dispatches, level
\* equals the initial food plus the production rate times the number of
\* nights whose growth was put, minus the total of the food_eaten
\* increments.
C19_LevelBalanced ==
    level = level0 + FODD_RATE_PRODUCTION * puts - meals

\* C19 as amended: in every reachable state between event dispatches, level
\* equals the initial food plus the production rate times the number of
\* puts, minus the total of the food_eaten increments, minus one for every
\* hunt that has taken a unit by get(1) and has not yet been resumed to
\* count it. Such a hunt counts the unit at the instant it took it: no
\* interrupt reaches it in between, and when the run has ended no unit is
\* outstanding.
C19_LevelBalancedWithPendingGets ==
    /\ level = level0 + FODD_RATE_PRODUCTION * puts - meals
                  - Cardinality(Eating)
    /\ \A b \in Eating : TargetTime(b) = now /\ ~InterruptPending(b)
    /\ stopped => Eating = {}
    /\ getq = << >>

\* After a night's growth a hunt has taken a unit that it has not counted
\* yet, while meals were counted before.
C19_Witness ==
    /\ last.act = "HuntForaged"
    /\ LastBlob \in Eating
    /\ puts = 1 /\ meals >= 1
    /\ level # level0 + FODD_RATE_PRODUCTION * puts - meals

\* -------------------------------------------------------------------- C20
\* C20: a dead Blob never consumes food. From the state where alive becomes
\* false onward its hunt performs no get and its food_eaten stays 0,
\* although the hunt process is still pending until the next dawn.
C20_DeadBlobEatsNothing ==
    /\ [](\A b \in Blobs :
            ~alive[b] =>
                /\ food_eaten[b] = 0
                /\ huntpc[b] # "get"
                /\ target[b] >= 0)
    /\ [][\A b \in Blobs :
            ~alive'[b] =>
                /\ food_eaten'[b] = 0
                /\ (Running /\ NextEvent.cb = HuntP(b)) =>
                      /\ level' = level
                      /\ meals' = meals
                      /\ getq' = getq
                      /\ huntpc'[b] \in {"night", "done"}]_vars

\* In the night after a Blob's death the foraging timer its hunt was
\* waiting on has expired with food in the container, and nothing was
\* taken: the hunt, still pending in its night wait, was no longer
\* registered on it.
C20_Witness ==
    /\ last.act = "Discard" /\ last.ev.kind = "timeout"
    /\ level > 0
    /\ \A b \in Blobs : ~alive[b] /\ huntpc[b] = "night" /\ food_eaten[b] = 0

====
